---- MODULE Spec2Model ----
(***************************************************************************)
(* Verification model of the eyeBOLD curation pipeline: the record store   *)
(* with its per-record status bitvector (sqlite/Bitvector.py), the ingest  *)
(* of builder.py/parser.py, the name harmoniser of gbif.py, the duplicate  *)
(* purge engine of tools/sanitizer.py, the geo evaluator of                *)
(* tools/tracker.py and the orchestrator of common/eyebold_database.py.    *)
(*                                                                         *)
(* Size constants of common/constants.py are scaled down (a group of five  *)
(* thousand records becomes a group of two); their order is preserved.     *)
(***************************************************************************)
EXTENDS Integers, Sequences, FiniteSets, TLC

VARIABLES
    specimen,   \* table specimen: [specimenid -> row], DOMAIN = stored ids
    climate,    \* table climate_data: [taxon_key -> row]
    pc,         \* position of the running command ("idle" between commands)
    infile,     \* the input being read: the lines of the tsv file of an
                \* update, or the answers of the name service to a query
    pos,        \* update-mode ingest: index of the next line of infile
    table_batch, \* update-mode ingest: the rows waiting for insert
    result,     \* what the last command or call returned or raised
    bv,         \* a checks value under test (bitvector specification)
    runs        \* number of purge-engine calls made (purge specification)

vars == <<specimen, climate, pc, infile, pos, table_batch, result, bv, runs>>

-----------------------------------------------------------------------------
(* sqlite/Bitvector.py: class BitIndex                                     *)

SELECTED == 0
NAME_CHECKED == 1
DUPLICATE == 2
FAILED_LENGTH == 3
HYBRID == 4
INCL_KINGDOM == 5
INCL_PHYLUM == 6
INCL_CLASS == 7
INCL_ORDER == 8
INCL_FAMILY == 9
INCL_SUBFAMILY == 10
INCL_TRIBE == 11
INCL_GENUS == 12
INCL_SPECIES == 13
INCL_SUBSPECIES == 14
BAD_CLASSIFICATION == 15
NAME_FAILED == 16
LOC_CHECKED == 17
LOC_PASSED == 18
LOC_EMPTY == 19

BitWidth == 20
AllBits == 0 .. (BitWidth - 1)

\* 1 << b
Shl(b) == 2 ^ b

\* (x >> b) & 1 = 1
HasBit(x, b) == (x \div Shl(b)) % 2 = 1

\* x & y on non-negative integers
RECURSIVE BitAnd(_, _)
BitAnd(x, y) ==
    IF x = 0 \/ y = 0 THEN 0
    ELSE 2 * BitAnd(x \div 2, y \div 2)
         + (IF x % 2 = 1 /\ y % 2 = 1 THEN 1 ELSE 0)

\* x | y
BitOr(x, y) == x + y - BitAnd(x, y)

\* x & ~m
BitAndNot(x, m) == x - BitAnd(x, m)

\* ChecksManager.generate_mask: OR of (1 << bit) over the list
RECURSIVE generate_mask(_)
generate_mask(bit_indices) ==
    IF bit_indices = <<>> THEN 0
    ELSE BitOr(Shl(Head(bit_indices)), generate_mask(Tail(bit_indices)))

\* BitIndex.get_update_clear_mask
get_update_clear_mask ==
    BitOr(BitOr(BitOr(0, Shl(LOC_CHECKED)), Shl(LOC_EMPTY)), Shl(LOC_PASSED))

\* BitIndex.get_golden: the golden value ...
golden_mask ==
    BitOr(BitOr(BitOr(BitOr(BitOr(0, 1 * Shl(NAME_CHECKED)),
        0 * Shl(NAME_FAILED)), 0 * Shl(DUPLICATE)),
        0 * Shl(FAILED_LENGTH)), 0 * Shl(BAD_CLASSIFICATION))

\* a read mask that leaves BAD_CLASSIFICATION out
read_mask_NoClassification ==
    BitOr(BitOr(BitOr(BitOr(0, Shl(NAME_CHECKED)),
        Shl(NAME_FAILED)), Shl(DUPLICATE)), Shl(FAILED_LENGTH))

\* ... and the read mask
read_mask ==
    BitOr(BitOr(BitOr(BitOr(BitOr(0, Shl(NAME_CHECKED)),
        Shl(NAME_FAILED)), Shl(DUPLICATE)),
        Shl(FAILED_LENGTH)), Shl(BAD_CLASSIFICATION))

\* WHERE (checks & read_mask) = golden_mask
IsGolden(checks) == BitAnd(checks, read_mask) = golden_mask

\* UPDATE specimen SET checks = checks | 1 WHERE (checks & read_mask) = golden
SelectGolden(checks) ==
    IF IsGolden(checks) THEN BitOr(checks, Shl(SELECTED)) ELSE checks

-----------------------------------------------------------------------------
(* Nullable columns: None is SQL NULL, Some(v) a stored value.             *)

None == <<>>
Some(v) == <<v>>
IsNull(c) == c = <<>>
Val(c) == c[1]

Max(a, b) == IF a >= b THEN a ELSE b

\* the ids of a set in ascending order (rowid order of a SELECT)
RECURSIVE Ascending(_)
Ascending(S) ==
    IF S = {} THEN <<>>
    ELSE LET m == CHOOSE x \in S : \A y \in S : x <= y
         IN <<m>> \o Ascending(S \ {m})

\* list[i : i + n] for a 0-based start i
Slice(list, i, n) == SubSeq(list, i + 1, IF i + n < Len(list) THEN i + n ELSE Len(list))

\* [list[i : i + n] for i in range(0, len(list), n)]
RECURSIVE Chunks(_, _)
Chunks(list, n) ==
    IF list = <<>> THEN <<>>
    ELSE <<Slice(list, 0, n)>> \o Chunks(SubSeq(list, n + 1, Len(list)), n)

RECURSIVE Flatten(_)
Flatten(lists) ==
    IF lists = <<>> THEN <<>> ELSE Head(lists) \o Flatten(Tail(lists))

Range(s) == {s[i] : i \in 1 .. Len(s)}

-----------------------------------------------------------------------------
(* tools/sanitizer.py: the duplicate-purge engine.  A nucleotide sequence  *)
(* is a tuple of one-character strings.                                    *)

\* common/constants.py, scaled
TRIVIAL_SIZE == 2
SMALL_SIZE == 3
SUBPROBLEM_SIZE_MIN == 2
SUBPROBLEM_SIZE_MAX == 3
SUBPROBLEM_SIZE_STEP == 1
\* the literal 200 of the length check, scaled
MIN_LENGTH == 2

STRIP_CHARS == {"_", "-", "N"}

RECURSIVE LStrip(_)
LStrip(s) ==
    IF s = <<>> THEN s
    ELSE IF Head(s) \in STRIP_CHARS THEN LStrip(Tail(s)) ELSE s

RECURSIVE RStrip(_)
RStrip(s) ==
    IF s = <<>> THEN s
    ELSE IF s[Len(s)] \in STRIP_CHARS THEN RStrip(SubSeq(s, 1, Len(s) - 1)) ELSE s

\* nuc_raw.strip(STRIP_CHARS).replace('-', '')
Sanitise(nuc_raw) == SelectSeq(RStrip(LStrip(nuc_raw)), LAMBDA c : c # "-")

\* Python's  s in t  on strings
IsSubstr(s, t) ==
    \E i \in 0 .. (Len(t) - Len(s)) : SubSeq(t, i + 1, i + Len(s)) = s

\* list.sort(key=len(x[1]), reverse=True): stable, longest first
RECURSIVE SortFrom(_, _)
SortFrom(list, l) ==
    IF l < 0 THEN <<>>
    ELSE SelectSeq(list, LAMBDA e : Len(e.seq) = l) \o SortFrom(list, l - 1)

RECURSIVE MaxLenOf(_)
MaxLenOf(list) ==
    IF list = <<>> THEN 0 ELSE Max(Len(Head(list).seq), MaxLenOf(Tail(list)))

\* variant: the group is left in the order it was returned in
SortByLengthDesc_StoreOrder(list) == list

SortByLengthDesc(list) == SortFrom(list, MaxLenOf(list))

\* a loop that tests the length of the unique sequences only
RECURSIVE MarkLoop_UniqueOnly(_, _)
MarkLoop_UniqueOnly(helper, seen) ==
    IF helper = <<>> THEN <<>>
    ELSE LET e == Head(helper)
             unique == ~ (e.seq \in seen \/ \E s \in seen : IsSubstr(e.seq, s))
             checks == IF ~ unique THEN <<DUPLICATE>>
                       ELSE IF Len(e.seq) < MIN_LENGTH THEN <<FAILED_LENGTH>> ELSE <<>>
         IN <<[nuc_san |-> e.seq, mask |-> generate_mask(checks), id |-> e.id]>>
            \o MarkLoop_UniqueOnly(Tail(helper), IF unique THEN seen \cup {e.seq} ELSE seen)

\* the loop of _mark_duplicates over the sorted helper list
RECURSIVE MarkLoop(_, _)
MarkLoop(helper, seen) ==
    IF helper = <<>> THEN <<>>
    ELSE LET e == Head(helper)
             short == IF Len(e.seq) < MIN_LENGTH THEN <<FAILED_LENGTH>> ELSE <<>>
             unique == ~ (e.seq \in seen \/ \E s \in seen : IsSubstr(e.seq, s))
             checks == short \o (IF unique THEN <<>> ELSE <<DUPLICATE>>)
         IN <<[nuc_san |-> e.seq, mask |-> generate_mask(checks), id |-> e.id]>>
            \o MarkLoop(Tail(helper), IF unique THEN seen \cup {e.seq} ELSE seen)

\* _mark_duplicates(data): data is a list of [id, seq] with seq the raw text
_mark_duplicates(data) ==
    LET helper == [i \in 1 .. Len(data) |->
                      [id |-> data[i].id, seq |-> Sanitise(data[i].seq)]]
    IN MarkLoop(SortByLengthDesc(helper), {})

\* the loop of _mark_duplicates_own over one chunk: only duplicates are emitted
RECURSIVE OwnLoop(_, _)
OwnLoop(chunk, seen) ==
    IF chunk = <<>> THEN <<>>
    ELSE LET e == Head(chunk)
             short == IF Len(e.seq) < MIN_LENGTH THEN <<FAILED_LENGTH>> ELSE <<>>
             exact == IF e.seq \in seen THEN <<DUPLICATE>> ELSE <<>>
             found == \E s \in seen : IsSubstr(e.seq, s)
             checks == short \o exact \o <<DUPLICATE>>
         IN (IF found
             THEN <<[nuc_san |-> e.seq, mask |-> generate_mask(checks), id |-> e.id]>>
             ELSE <<>>)
            \o OwnLoop(Tail(chunk),
                       IF e.seq \in seen \/ found THEN seen ELSE seen \cup {e.seq})

\* _mark_duplicates_own(chunk): the sql parameters of the chunk's duplicates
_mark_duplicates_own(chunk) == OwnLoop(chunk, {})

\* the sweep loop of a hard instance (sanitizer.py while adapted_size <= MAX)
RECURSIVE HardSweep(_, _)
HardSweep(sequences, adapted_size) ==
    IF adapted_size > SUBPROBLEM_SIZE_MAX
    THEN [survivors |-> sequences, parameters |-> <<>>]
    ELSE LET chunks == Chunks(sequences, adapted_size)
             results == [k \in 1 .. Len(chunks) |-> _mark_duplicates_own(chunks[k])]
             parameters == Flatten(results)
             delete_set == {parameters[k].id : k \in 1 .. Len(parameters)}
             new_chunks == SelectSeq(sequences, LAMBDA e : e.id \notin delete_set)
             rest == HardSweep(new_chunks, adapted_size + SUBPROBLEM_SIZE_STEP)
         IN [survivors |-> rest.survivors,
             parameters |-> parameters \o rest.parameters]

\* variant: the sweeps alone, without the pass over the survivors
HardInstance_SweepsOnly(data) ==
    LET sequences == SortByLengthDesc(
            [i \in 1 .. Len(data) |->
                [id |-> data[i].id, seq |-> Sanitise(data[i].seq)]])
        swept == HardSweep(sequences, SUBPROBLEM_SIZE_MIN)
        unmarked == [k \in 1 .. Len(swept.survivors) |->
                        [id |-> swept.survivors[k].id,
                         nuc_san |-> swept.survivors[k].seq,
                         mask |-> IF Len(swept.survivors[k].seq) < MIN_LENGTH
                                  THEN Shl(FAILED_LENGTH) ELSE 0]]
    IN swept.parameters \o unmarked

\* one hard instance: preprocess, sweep, then the pass over the survivors
HardInstance(data) ==
    LET sequences == SortByLengthDesc(
            [i \in 1 .. Len(data) |->
                [id |-> data[i].id, seq |-> Sanitise(data[i].seq)]])
        swept == HardSweep(sequences, SUBPROBLEM_SIZE_MIN)
    IN swept.parameters \o _mark_duplicates(swept.survivors)

-----------------------------------------------------------------------------
(* The specimen table.  A row is a record; gbif_key 0 is SQL NULL.         *)

\* common/constants.py SQL_SAVE_NUM_VARS
SQL_SAVE_NUM_VARS == 950

Ids(spec) == DOMAIN spec

\* SELECT specimenid, nuc_raw FROM specimen WHERE specimenid IN (batch),
\* batch by batch over the instance
FetchSequences(spec, instance) ==
    LET batches == Chunks(instance, SQL_SAVE_NUM_VARS)
        rows(batch) == LET ids == Ascending(Range(batch) \cap Ids(spec))
                       IN [k \in 1 .. Len(ids) |->
                              [id |-> ids[k], seq |-> spec[ids[k]].nuc_raw]]
    IN Flatten([k \in 1 .. Len(batches) |-> rows(batches[k])])

\* variant: the mask is added to the stored value instead of OR-ed into it
PurgeUpdate_Add(row, p) ==
    [row EXCEPT !.nuc_san = Some(p.nuc_san), !.checks = row.checks + p.mask]

\* UPDATE specimen SET nuc_san = ?, checks = checks | ? WHERE specimenid = ?
PurgeUpdate(row, p) ==
    [row EXCEPT !.nuc_san = Some(p.nuc_san), !.checks = BitOr(row.checks, p.mask)]

\* cursor.executemany(command, parameters)
RECURSIVE ApplyParameters(_, _)
ApplyParameters(spec, parameters) ==
    IF parameters = <<>> THEN spec
    ELSE LET p == Head(parameters)
             next == IF p.id \in Ids(spec)
                     THEN [spec EXCEPT ![p.id] = PurgeUpdate(spec[p.id], p)]
                     ELSE spec
         IN ApplyParameters(next, Tail(parameters))

\* purge_duplicates(db_handle, duplicates): the sequential pass
purge_duplicates(spec, duplicates) ==
    ApplyParameters(spec,
        Flatten([k \in 1 .. Len(duplicates) |->
                    _mark_duplicates(FetchSequences(spec, duplicates[k]))]))

\* purge_duplicates_multithreading_2(db_handle, duplicates): instances of at
\* most SMALL_SIZE records go to the pool as they are, longer ones are swept
purge_duplicates_multithreading_2(spec, duplicates) ==
    LET hard_barrier == SMALL_SIZE
        simple_list == SelectSeq(duplicates, LAMBDA g : ~ (Len(g) > hard_barrier))
        hard_list == SelectSeq(duplicates, LAMBDA g : Len(g) > hard_barrier)
        after_simple == ApplyParameters(spec,
            Flatten([k \in 1 .. Len(simple_list) |->
                        _mark_duplicates(FetchSequences(spec, simple_list[k]))]))
    IN ApplyParameters(after_simple,
            Flatten([k \in 1 .. Len(hard_list) |->
                        HardInstance(FetchSequences(after_simple, hard_list[k]))]))

\* SELECT DISTINCT gbif_key FROM specimen, without the NULL key
DistinctKeys(spec) == {spec[i].gbif_key : i \in Ids(spec)} \ {0}

\* SELECT GROUP_CONCAT(specimenid) ... GROUP BY gbif_key: one id list per key
TaxonGroups(spec) ==
    LET keys == Ascending(DistinctKeys(spec))
    IN [k \in 1 .. Len(keys) |->
           Ascending({i \in Ids(spec) : spec[i].gbif_key = keys[k]})]

\* a purge step that leaves the larger instances out
CuratePurge_TinyOnly(spec) ==
    LET duplicates == TaxonGroups(spec)
        tiny_instances == SelectSeq(duplicates, LAMBDA g : Len(g) < TRIVIAL_SIZE)
    IN IF tiny_instances # <<>> THEN purge_duplicates(spec, tiny_instances) ELSE spec

\* step 2 of curate (eyebold_database.py 375-424): split by size, purge
CuratePurge(spec) ==
    LET duplicates == TaxonGroups(spec)
        tiny_instances == SelectSeq(duplicates, LAMBDA g : Len(g) < TRIVIAL_SIZE)
        larger_instances == SelectSeq(duplicates, LAMBDA g : Len(g) >= TRIVIAL_SIZE)
        after_tiny == IF tiny_instances # <<>>
                      THEN purge_duplicates(spec, tiny_instances) ELSE spec
    IN IF larger_instances # <<>>
       THEN purge_duplicates_multithreading_2(after_tiny, larger_instances)
       ELSE after_tiny

-----------------------------------------------------------------------------
(* Rows of the specimen table.                                             *)

\* the ten rank columns taxon_<rank>, shallowest first (parser.py TAXONOMY_TO_INT)
RankNames == <<"kingdom", "phylum", "class", "order", "family",
               "subfamily", "tribe", "genus", "species", "subspecies">>
Ranks == Range(RankNames)

\* the taxon_* columns of a row; a text is a tuple of characters and the
\* empty tuple is NULL (the parsers never store an empty text)
NoLineage == [r \in Ranks |-> <<>>]

\* a row as the parsers create it (parser.py 508-537) before it is stored;
\* checks takes the column default 0, nuc_san and gbif_key are NULL
NewRow(nuc, hash, tax, country, zone) ==
    [nuc_raw |-> nuc, nuc_san |-> None, hash |-> hash, review |-> TRUE,
     include |-> FALSE, gbif_key |-> 0, tax |-> tax, checks |-> 0,
     country_iso |-> country, kg_zone |-> zone]

EmptyTable == [i \in {} |-> NewRow(<<>>, <<>>, NoLineage, <<>>, <<>>)]

-----------------------------------------------------------------------------
(* Purge specification: the purge step on bounded tables of harmonised     *)
(* records.                                                                *)

MaxPurgeRecs == 4
MaxPurgeRuns == 2
PurgeKeys == {1, 2}

\* raw sequences: substrings of each other, equal after sanitising, short
PurgeSeqs ==
    { <<"A", "C", "A">>, <<"C", "C">>, <<"C", "A">>,
      <<"N", "C", "-", "A", "-">>, <<"A">> }

HarmonisedRow(nuc, key) ==
    [NewRow(nuc, <<>>, NoLineage, <<>>, <<>>) EXCEPT
        !.gbif_key = key, !.checks = Shl(NAME_CHECKED)]

InitPurge ==
    /\ specimen \in [1 .. MaxPurgeRecs ->
                        {HarmonisedRow(n, k) : n \in PurgeSeqs, k \in PurgeKeys}]
    /\ climate = <<>>
    /\ pc = "purge"
    /\ infile = <<>>
    /\ pos = 0
    /\ table_batch = <<>>
    /\ result = "none"
    /\ bv = 0
    /\ runs = 0

\* one call of the purge step on the whole table
PurgeRun ==
    /\ pc = "purge"
    /\ runs < MaxPurgeRuns
    /\ specimen' = CuratePurge(specimen)
    /\ runs' = runs + 1
    /\ UNCHANGED <<climate, pc, infile, pos, table_batch, result, bv>>

SpecPurge == InitPurge /\ [][PurgeRun]_vars

\* r' comes before r in "sanitised length descending, ties by store order"
Precedes(a, b) ==
    \/ Len(Val(specimen[a].nuc_san)) > Len(Val(specimen[b].nuc_san))
    \/ /\ Len(Val(specimen[a].nuc_san)) = Len(Val(specimen[b].nuc_san))
       /\ a < b

\* prefix test written out, independent of the model's substring operator
Occurs(s, t) ==
    \E i \in 1 .. (Len(t) + 1) :
        /\ i + Len(s) - 1 <= Len(t)
        /\ \A j \in 1 .. Len(s) : t[i + j - 1] = s[j]

\* C4: after the purge of a taxon group, a record has DUPLICATE iff a
\* record of the same taxon_key that precedes it (longer sanitised
\* sequence, or equal length and returned earlier) contains its sanitised
\* sequence; records of other taxon_keys never cause a mark.
C4_DuplicateIffContained ==
    (pc = "purge" /\ runs >= 1) =>
        \A r \in Ids(specimen) :
            HasBit(specimen[r].checks, DUPLICATE) <=>
                \E o \in Ids(specimen) \ {r} :
                    /\ specimen[o].gbif_key = specimen[r].gbif_key
                    /\ Precedes(o, r)
                    /\ Occurs(Val(specimen[r].nuc_san), Val(specimen[o].nuc_san))

\* a purged table where a record is contained in a longer record of another
\* key and stays unmarked, while a record of its own key is marked
C4_Witness ==
    /\ pc = "purge" /\ runs >= 1
    /\ \E r, o, d \in Ids(specimen) :
        /\ specimen[o].gbif_key # specimen[r].gbif_key
        /\ Precedes(o, r)
        /\ Occurs(Val(specimen[r].nuc_san), Val(specimen[o].nuc_san))
        /\ ~ HasBit(specimen[r].checks, DUPLICATE)
        /\ specimen[d].gbif_key = specimen[r].gbif_key
        /\ HasBit(specimen[d].checks, DUPLICATE)
        /\ Val(specimen[d].nuc_san) = Val(specimen[r].nuc_san)

\* the ids the reference sequential algorithm leaves unmarked on one group
ReferenceUnmarked(spec, group) ==
    LET res == _mark_duplicates(FetchSequences(spec, group))
    IN {res[k].id : k \in 1 .. Len(res)} \
       {res[k].id : k \in {j \in 1 .. Len(res) : HasBit(res[j].mask, DUPLICATE)}}

\* C5: in every regime (trivial, small, hard sweep plus global pass) the
\* records of a group left without DUPLICATE are those the reference
\* sequential algorithm leaves unmarked on the whole group.
C5_RegimesAgreeWithReference ==
    (pc = "purge" /\ runs >= 1) =>
        \A k \in 1 .. Len(TaxonGroups(specimen)) :
            LET group == TaxonGroups(specimen)[k]
            IN {r \in Range(group) : ~ HasBit(specimen[r].checks, DUPLICATE)}
               = ReferenceUnmarked(specimen, group)

\* a hard group (more than SMALL_SIZE records) purged with a duplicate left
\* over for the pass on the survivors: no chunk of a sweep held it together
\* with a record containing it
C5_Witness ==
    /\ pc = "purge" /\ runs >= 1
    /\ \E k \in 1 .. Len(TaxonGroups(specimen)) :
        LET group == TaxonGroups(specimen)[k]
            data == FetchSequences(specimen, group)
            sorted == SortByLengthDesc([i \in 1 .. Len(data) |->
                          [id |-> data[i].id, seq |-> Sanitise(data[i].seq)]])
            swept == HardSweep(sorted, SUBPROBLEM_SIZE_MIN)
        IN /\ Len(group) > SMALL_SIZE
           /\ \E k2 \in 1 .. Len(swept.survivors) :
                  HasBit(specimen[swept.survivors[k2].id].checks, DUPLICATE)

\* C6: a second purge of the same groups changes no checks bit and no
\* nuc_san.
C6_PurgeIdempotent ==
    [][(pc = "purge" /\ runs >= 1) =>
          \A r \in Ids(specimen) :
              /\ specimen'[r].checks = specimen[r].checks
              /\ specimen'[r].nuc_san = specimen[r].nuc_san]_vars

\* the purge has run twice on a table with a marked and a short record
C6_Witness ==
    /\ pc = "purge" /\ runs = 2
    /\ \E r, q \in Ids(specimen) :
        /\ HasBit(specimen[r].checks, DUPLICATE)
        /\ HasBit(specimen[q].checks, FAILED_LENGTH)

\* C24: after the purge every record of a taxon group whose sanitised
\* sequence is shorter than MIN_LENGTH carries FAILED_LENGTH, a duplicate or
\* not and in every regime, and no record with a sequence of at least
\* MIN_LENGTH carries it.
C24_FailedLengthIffShort ==
    (pc = "purge" /\ runs >= 1)
    => \A i \in Ids(specimen) :
          specimen[i].gbif_key # 0
          => (HasBit(specimen[i].checks, FAILED_LENGTH)
              <=> Len(Sanitise(specimen[i].nuc_raw)) < MIN_LENGTH)

\* a hard group after the purge with a short duplicate, marked with both
\* bits, and a record of full length without FAILED_LENGTH
C24_Witness ==
    /\ pc = "purge" /\ runs = 1
    /\ \A i \in Ids(specimen) : specimen[i].gbif_key = 1
    /\ Cardinality(Ids(specimen)) > SMALL_SIZE
    /\ \E r, q \in Ids(specimen) :
          /\ HasBit(specimen[r].checks, DUPLICATE)
          /\ HasBit(specimen[r].checks, FAILED_LENGTH)
          /\ Len(Sanitise(specimen[q].nuc_raw)) >= MIN_LENGTH
          /\ ~ HasBit(specimen[q].checks, FAILED_LENGTH)

\* the pass a group of n records is given by curate: the split into
\* tiny_instances and larger_instances, then the hard_barrier of the pool
CurateRegime(n) ==
    IF n < TRIVIAL_SIZE THEN "trivial"
    ELSE IF n > SMALL_SIZE THEN "hard" ELSE "small"

\* the pass a group of n records is given by update: the split into
\* trivial_instances and larger_instances, then the same hard_barrier
UpdateRegime(n) ==
    IF n <= TRIVIAL_SIZE THEN "trivial"
    ELSE IF n > SMALL_SIZE THEN "hard" ELSE "small"

\* C23: on both paths a group of n records is trivial when n is at most
\* TRIVIAL_SIZE, small when n is above it and at most SMALL_SIZE, hard
\* when n is above SMALL_SIZE.
C23_RegimeBySize ==
    \A g \in Range(TaxonGroups(specimen)) :
        LET n == Len(g)
            regime == IF n <= TRIVIAL_SIZE THEN "trivial"
                      ELSE IF n <= SMALL_SIZE THEN "small" ELSE "hard"
        IN CurateRegime(n) = regime /\ UpdateRegime(n) = regime

-----------------------------------------------------------------------------
(* Ingest: sqlite/parser.py and sqlite/builder.py.  A file is a sequence   *)
(* of lines; a line gives the raw text of each column, a tuple of          *)
(* characters.                                                             *)

\* the header of the tsv file, in file order (the order the hash is built in)
Columns == <<"specimenid", "marker_code", "nuc",
             "taxon_genus", "taxon_species", "country_iso">>

\* the marker the store is built for (the cli's marker argument)
MarkerCode == <<"M">>

Digits == <<"0", "1", "2", "3", "4", "5", "6", "7", "8", "9">>
DigitValue(c) == CHOOSE d \in 0 .. 9 : Digits[d + 1] = c
NoneText == <<"N", "o", "n", "e">>

\* str.strip()
RECURSIVE LStripWs(_)
LStripWs(s) == IF s # <<>> /\ Head(s) = " " THEN LStripWs(Tail(s)) ELSE s
RECURSIVE RStripWs(_)
RStripWs(s) ==
    IF s # <<>> /\ s[Len(s)] = " " THEN RStripWs(SubSeq(s, 1, Len(s) - 1)) ELSE s
StripWs(s) == RStripWs(LStripWs(s))

\* int(value) of a text of digits, surrounding blanks ignored
RECURSIVE ParseDigits(_, _)
ParseDigits(s, acc) ==
    IF s = <<>> THEN acc ELSE ParseDigits(Tail(s), acc * 10 + DigitValue(Head(s)))
ParseInt(value) == ParseDigits(StripWs(value), 0)

\* str(n) of a natural number
RECURSIVE IntToText(_)
IntToText(n) ==
    IF n < 10 THEN <<Digits[n + 1]>>
    ELSE IntToText(n \div 10) \o <<Digits[(n % 10) + 1]>>

\* _transform_value: None for an empty, blank or 'None' cell, else the
\* column's parser applied to the raw cell (int for specimenid, else text)
_transform_value(value, column) ==
    IF StripWs(value) = <<>> \/ StripWs(value) = NoneText THEN None
    ELSE IF column = "specimenid" THEN Some(ParseInt(value)) ELSE value

\* the dict comprehension transformed_row of __next__
TransformedRow(line) ==
    [c \in Range(Columns) |-> _transform_value(line[c], c)]

\* _null_data over NOT_NULL_MAP = {specimenid, nuc}
_null_data(column, value) ==
    IF column \in {"specimenid", "nuc"} THEN value = None ELSE FALSE

\* str(value) of a transformed cell
StrOf(value, column) ==
    IF value = None THEN NoneText
    ELSE IF column = "specimenid" THEN IntToText(Val(value)) ELSE value

\* hashlib.sha256(''.join(hash_in)): the digest stands for the joined text
HashOf(transformed_row) ==
    Flatten([k \in 1 .. Len(Columns) |->
                StrOf(transformed_row[Columns[k]], Columns[k])])

\* specimen_rows of __next__: the columns copied, hash, include, kg_zone
\* (no coord column in this layout), review
SpecimenRows(transformed_row) ==
    NewRow(transformed_row["nuc"], HashOf(transformed_row),
           [NoLineage EXCEPT !["genus"] = transformed_row["taxon_genus"],
                             !["species"] = transformed_row["taxon_species"]],
           transformed_row["country_iso"], <<>>)

\* TsvParser.__next__ on one line: what build mode yields for it, if anything
TsvParser_next(line) ==
    LET transformed_row == TransformedRow(line)
        null_checks == {_null_data(c, transformed_row[c]) : c \in Range(Columns)}
    IN IF line["marker_code"] # MarkerCode \/ TRUE \in null_checks
       THEN [yielded |-> FALSE]
       ELSE [yielded |-> TRUE,
             id |-> Val(transformed_row["specimenid"]),
             row |-> SpecimenRows(transformed_row)]

\* TsvUpdateParser.__next__ on one line: (specimenid, hash, row), if anything
TsvUpdateParser_next(line) ==
    LET transformed_row == TransformedRow(line)
        null_checks == {_null_data(c, transformed_row[c]) : c \in Range(Columns)}
    IN IF line["marker_code"] # MarkerCode \/ TRUE \in null_checks
       THEN [yielded |-> FALSE]
       ELSE [yielded |-> TRUE,
             id |-> Val(transformed_row["specimenid"]),
             hash |-> HashOf(transformed_row),
             row |-> SpecimenRows(transformed_row)]

\* common/constants.py BUILD_CHUNK_SIZE, UPDATE_CHUNK_SIZE (scaled)
BUILD_CHUNK_SIZE == 2
UPDATE_CHUNK_SIZE == 2

\* sqlite3.IntegrityError of the INSERT: a specimenid (PRIMARY KEY) that is
\* stored already or comes twice in the batch
IntegrityError(spec, rows) ==
    \/ {rows[k].id : k \in 1 .. Len(rows)} \cap Ids(spec) # {}
    \/ \E j, k \in 1 .. Len(rows) : j # k /\ rows[j].id = rows[k].id

\* _insert_batch: INSERT of all rows in one transaction; a primary key
\* already stored or repeated in the batch fails the statement, the batch
\* is rolled back and the error is only logged
_insert_batch(spec, rows) ==
    LET ids == {rows[k].id : k \in 1 .. Len(rows)}
    IN IF IntegrityError(spec, rows) THEN spec
       ELSE [i \in Ids(spec) \cup ids |->
                IF i \in Ids(spec) THEN spec[i]
                ELSE rows[CHOOSE k \in 1 .. Len(rows) : rows[k].id = i].row]

\* the loop of create_database over the file, with the last partial batch
RECURSIVE CreateLoop(_, _, _)
CreateLoop(spec, file, table2_batch) ==
    IF file = <<>>
    THEN IF table2_batch # <<>> THEN _insert_batch(spec, table2_batch) ELSE spec
    ELSE LET parsed == TsvParser_next(Head(file))
             filled == Append(table2_batch, [id |-> parsed.id, row |-> parsed.row])
         IN IF ~ parsed.yielded THEN CreateLoop(spec, Tail(file), table2_batch)
            ELSE IF Len(filled) = BUILD_CHUNK_SIZE
            THEN CreateLoop(_insert_batch(spec, filled), Tail(file), <<>>)
            ELSE CreateLoop(spec, Tail(file), filled)

\* create_database: the specimen table of a new store built from a file
create_database(file) == CreateLoop(EmptyTable, file, <<>>)

\* an iteration that reports a stored row as changed whatever its hash
insert_updates_row_NoSkip(st, line) ==
    LET parsed == TsvUpdateParser_next(line)
        stored == parsed.id \in Ids(st.spec)
        filled == Append(st.table_batch, [id |-> parsed.id, row |-> parsed.row])
    IN IF ~ parsed.yielded THEN st
       ELSE [spec |-> IF Len(filled) = UPDATE_CHUNK_SIZE
                      THEN _insert_batch(st.spec, filled) ELSE st.spec,
             table_batch |-> filled,
             new_ids |-> IF stored THEN st.new_ids
                         ELSE Append(st.new_ids, parsed.id),
             updated_ids |-> IF stored
                             THEN Append(st.updated_ids,
                                         <<parsed.id, st.spec[parsed.id].gbif_key>>)
                             ELSE st.updated_ids]

\* one iteration of the loop of insert_updates over a state
\* [spec, table_batch, new_ids, updated_ids]; table_batch is not emptied
\* after a chunk insert
insert_updates_row(st, line) ==
    LET parsed == TsvUpdateParser_next(line)
        stored == parsed.id \in Ids(st.spec)
        filled == Append(st.table_batch, [id |-> parsed.id, row |-> parsed.row])
    IN IF ~ parsed.yielded THEN st
       ELSE IF stored /\ parsed.hash = st.spec[parsed.id].hash THEN st
       ELSE [spec |-> IF Len(filled) = UPDATE_CHUNK_SIZE
                      THEN _insert_batch(st.spec, filled) ELSE st.spec,
             table_batch |-> filled,
             new_ids |-> IF stored THEN st.new_ids
                         ELSE Append(st.new_ids, parsed.id),
             updated_ids |-> IF stored
                             THEN Append(st.updated_ids,
                                         <<parsed.id, st.spec[parsed.id].gbif_key>>)
                             ELSE st.updated_ids]

\* the end of insert_updates: the last batch
insert_updates_last(spec, rows) ==
    IF rows # <<>> THEN _insert_batch(spec, rows) ELSE spec

-----------------------------------------------------------------------------
(* gbif/gbif.py: the handler of one name-backbone response.  A response is *)
(* a record: error (the request raised), matchType, confidence, status,    *)
(* rank ("" when the response has none), usageKey (0 when it has none)     *)
(* and names, the lineage entries present in it.                           *)

\* parser.py TAXONOMY_TO_INT and INT_TO_TAXONOMY
TAXONOMY_TO_INT == [r \in Ranks |-> CHOOSE k \in 1 .. Len(RankNames) : RankNames[k] = r]
INT_TO_TAXONOMY == RankNames

\* BitIndex.from_string on a rank name
from_string(name) ==
    [kingdom |-> INCL_KINGDOM, phylum |-> INCL_PHYLUM, class |-> INCL_CLASS,
     order |-> INCL_ORDER, family |-> INCL_FAMILY, subfamily |-> INCL_SUBFAMILY,
     tribe |-> INCL_TRIBE, genus |-> INCL_GENUS, species |-> INCL_SPECIES,
     subspecies |-> INCL_SUBSPECIES][name]

\* str.lower() on the rank names GBIF sends
Lower(text) ==
    CASE text = "KINGDOM" -> "kingdom" [] text = "PHYLUM" -> "phylum"
      [] text = "CLASS" -> "class" [] text = "ORDER" -> "order"
      [] text = "FAMILY" -> "family" [] text = "SUBFAMILY" -> "subfamily"
      [] text = "TRIBE" -> "tribe" [] text = "GENUS" -> "genus"
      [] text = "SPECIES" -> "species" [] text = "SUBSPECIES" -> "subspecies"
      [] text = "FORM" -> "form" [] text = "VARIETY" -> "variety"
      [] OTHER -> text

\* list.remove(x): the list without the first occurrence of x
RemoveFirst(list, x) ==
    LET k == CHOOSE i \in 1 .. Len(list) :
                 list[i] = x /\ \A j \in 1 .. (i - 1) : list[j] # x
    IN SubSeq(list, 1, k - 1) \o SubSeq(list, k + 1, Len(list))

\* the while loop dropping every rank deeper than the match rank from
\* index_list; a rank that is not in the list is passed over
RECURSIVE RemoveDeeper(_, _, _)
RemoveDeeper(index_list, current_rank, end_rank) ==
    IF current_rank > end_rank
    THEN LET b == from_string(INT_TO_TAXONOMY[current_rank])
         IN RemoveDeeper(IF b \in Range(index_list) THEN RemoveFirst(index_list, b)
                         ELSE index_list,
                         current_rank - 1, end_rank)
    ELSE index_list

\* what the handler hands back: raised names the exception it ended with
\* ("" for a normal return); tax holds the taxon_* entries of insert_dict;
\* checks and gbif_key are <<>> when insert_dict has no such entry
HandlerReturn(tax, checks, gbif_key) ==
    [raised |-> "", tax |-> tax, checks |-> checks, gbif_key |-> gbif_key]
HandlerRaise(exception) ==
    [raised |-> exception, tax |-> <<>>, checks |-> None, gbif_key |-> None]

\* query_name_backbone_b2t for a query of rank query_rank answered by r
query_name_backbone_b2t(query_rank, r) ==
    IF r.error THEN HandlerReturn(<<>>, None, None)
    ELSE IF r.matchType = "NONE" /\ r.confidence = 100
    THEN HandlerRaise("UnboundLocalError")
    ELSE IF r.matchType \notin {"EXACT", "FUZZY", "HIGHERRANK"}
    THEN HandlerReturn(<<>>, None, None)
    ELSE
    LET query_bit == from_string(query_rank)
        present == SelectSeq(RankNames, LAMBDA n : n \in DOMAIN r.names)
        copied == <<query_bit, NAME_CHECKED>>
                  \o [k \in 1 .. Len(present) |-> from_string(present[k])]
        higher == r.status = "HIGHERRANK" \/ r.matchType = "HIGHERRANK"
        match_rank == Lower(r.rank)
        index_list == IF higher
                      THEN RemoveDeeper(RemoveFirst(copied, query_bit),
                                        TAXONOMY_TO_INT["subspecies"],
                                        TAXONOMY_TO_INT[match_rank])
                      ELSE copied
        gbif_key == Some(r.usageKey)
        first == HandlerReturn(r.names, Some(generate_mask(index_list)), gbif_key)
    IN IF higher /\ r.rank = "" THEN HandlerRaise("AttributeError")
       ELSE IF higher /\ match_rank \notin Ranks THEN HandlerRaise("KeyError")
       ELSE IF r.rank = "" THEN first
       ELSE IF ~ (match_rank # query_rank /\ r.matchType # "HIGHERRANK") THEN first
       ELSE IF query_rank \in DOMAIN r.names THEN first
       ELSE IF query_bit \notin Range(index_list) THEN HandlerRaise("ValueError")
       ELSE IF match_rank \notin Ranks THEN HandlerRaise("KeyError")
       ELSE HandlerReturn(r.names,
                Some(generate_mask(
                    RemoveDeeper(RemoveFirst(index_list, query_bit),
                                 TAXONOMY_TO_INT["subspecies"],
                                 TAXONOMY_TO_INT[match_rank]))),
                gbif_key)

\* a statement that adds the mask to checks instead of OR-ing it in
to_sql_command_AddChecks(row, datum) ==
    [row EXCEPT
        !.tax = [n \in Ranks |-> IF n \in DOMAIN datum.tax
                                 THEN datum.tax[n] ELSE row.tax[n]],
        !.checks = IF datum.checks = None THEN row.checks
                   ELSE (row.checks + Val(datum.checks)) % (2 ^ BitWidth),
        !.gbif_key = IF datum.gbif_key = None THEN row.gbif_key
                     ELSE Val(datum.gbif_key)]

\* GbifName.to_sql_command applied to one row: the columns of insert_dict
\* are assigned, checks is OR-ed in; an empty insert_dict changes nothing
to_sql_command(row, datum) ==
    [row EXCEPT
        !.tax = [n \in Ranks |-> IF n \in DOMAIN datum.tax
                                 THEN datum.tax[n] ELSE row.tax[n]],
        !.checks = IF datum.checks = None THEN row.checks
                   ELSE BitOr(row.checks, Val(datum.checks)),
        !.gbif_key = IF datum.gbif_key = None THEN row.gbif_key
                     ELSE Val(datum.gbif_key)]

-----------------------------------------------------------------------------
(* common/eyebold_database.py: the harmonise step of curate and update.    *)

\* the eight levels queried, shallowest first (no subfamily, no tribe)
Levels == <<"kingdom", "phylum", "class", "order",
            "family", "genus", "species", "subspecies">>

\* entry[:8] of a row of the helper query
Lineage8(row) == [k \in 1 .. Len(Levels) |-> row.tax[Levels[k]]]

\* the level whose helper query returns a lineage: its deepest non-NULL one
LevelOf(lineage) ==
    Levels[CHOOSE k \in 1 .. Len(Levels) :
              lineage[k] # <<>> /\ \A j \in (k + 1) .. Len(Levels) : lineage[j] = <<>>]

\* the lineages of the rows some level's helper query returns
ReviewLineages(spec) ==
    {Lineage8(spec[i]) :
        i \in {j \in Ids(spec) :
                  spec[j].review /\ \E k \in 1 .. Len(Levels) : Lineage8(spec[j])[k] # <<>>}}

\* get_unsanatized_taxonomy_b2t(level): one dict per lineage, with its ids
get_unsanatized_taxonomy_b2t(spec, level) ==
    {[lineage |-> l,
      specimenids |-> {i \in Ids(spec) : spec[i].review /\ Lineage8(spec[i]) = l}] :
        l \in {m \in ReviewLineages(spec) : LevelOf(m) = level}}

\* the harmonise loop over the levels, deepest first; the helper lists were
\* read before the first update; an exception of a handler ends the pass
\* with the earlier levels committed (raised: the exceptions the worker
\* pool may hand over first); choice gives each query its response
RECURSIVE HarmoniseLevels(_, _, _, _)
HarmoniseLevels(spec, helper, levels, choice) ==
    IF levels = <<>> THEN [spec |-> spec, raised |-> {}, queried |-> FALSE]
    ELSE LET info_dict == helper[Head(levels)]
             data(g) == query_name_backbone_b2t(Head(levels), choice[g.lineage])
             failed == {g \in info_dict : data(g).raised # ""}
             updated == [i \in Ids(spec) |->
                            IF \E g \in info_dict : i \in g.specimenids
                            THEN to_sql_command(spec[i],
                                     data(CHOOSE g \in info_dict : i \in g.specimenids))
                            ELSE spec[i]]
             rest == HarmoniseLevels(updated, helper, Tail(levels), choice)
         IN IF failed # {}
            THEN [spec |-> spec, raised |-> {data(g).raised : g \in failed},
                  queried |-> TRUE]
            ELSE [rest EXCEPT !.queried = rest.queried \/ info_dict # {}]

\* the levels in the order of the loop
ReversedLevels == [k \in 1 .. Len(Levels) |-> Levels[Len(Levels) + 1 - k]]

\* step 1 of curate (eyebold_database.py 349-372)
CurateHarmonise(spec, choice) ==
    HarmoniseLevels(spec,
                    [l \in Range(Levels) |-> get_unsanatized_taxonomy_b2t(spec, l)],
                    ReversedLevels, choice)

\* step 1 of update (eyebold_database.py 151-172): the same loop, but the
\* batch of the first level that has a query is handed to
\* cursor.execute_batches, which no cursor has; nothing is written
UpdateHarmonise(spec, choice) ==
    LET helper == [l \in Range(Levels) |-> get_unsanatized_taxonomy_b2t(spec, l)]
        asked == SelectSeq(ReversedLevels, LAMBDA l : helper[l] # {})
        level == Head(asked)
        failed == {query_name_backbone_b2t(level, choice[g.lineage]).raised :
                      g \in helper[level]} \ {""}
    IN IF asked = <<>> THEN {}
       ELSE IF failed # {} THEN failed
       ELSE {"AttributeError"}

\* disclose_hybrids: taxon_species LIKE '% x %' OR LIKE '% X %'
disclose_hybrids(spec) ==
    [i \in Ids(spec) |->
        IF \/ IsSubstr(<<" ", "x", " ">>, spec[i].tax["species"])
           \/ IsSubstr(<<" ", "X", " ">>, spec[i].tax["species"])
        THEN [spec[i] EXCEPT !.checks = BitOr(@, Shl(HYBRID))]
        ELSE spec[i]]

\* step 4 of curate (eyebold_database.py 430-436)
CurateSelect(spec) ==
    [i \in Ids(spec) |-> [spec[i] EXCEPT !.checks = SelectGolden(@)]]

\* the columns _export_fasta_raxtax reads under the nested bit tests
ExportRanks == <<"phylum", "class", "order", "family", "genus", "species">>

\* number of leading ranks of ExportRanks whose INCL bit is set
RECURSIVE ExportDepth(_, _)
ExportDepth(checks, k) ==
    IF k <= Len(ExportRanks) /\ HasBit(checks, from_string(ExportRanks[k]))
    THEN ExportDepth(checks, k + 1) ELSE k - 1

\* _export_fasta_raxtax on one row: the exception it ends with ("" none)
ExportError(row) ==
    LET depth == ExportDepth(row.checks, 1)
    IN IF \E k \in 1 .. depth : row.tax[ExportRanks[k]] = <<>> THEN "AttributeError"
       ELSE IF depth = Len(ExportRanks) /\ IsNull(row.nuc_san) THEN "TypeError"
       ELSE ""

\* _export_fasta_raxtax on one row: whether a record is written
ExportWritten(row) ==
    /\ ExportDepth(row.checks, 1) = Len(ExportRanks)
    /\ Range(Val(row.nuc_san)) \subseteq {"A", "G", "C", "T"}

\* str.replace(' ', '_') on a name
ReplaceSpaces(name) == [k \in 1 .. Len(name) |-> IF name[k] = " " THEN "_" ELSE name[k]]

\* _export_fasta_raxtax on rows that raise nothing: the records of the file
_export_fasta_raxtax(spec, rows) ==
    { [specimenid |-> i,
       tax |-> [k \in 1 .. ExportDepth(spec[i].checks, 1) |->
                   ReplaceSpaces(spec[i].tax[ExportRanks[k]])],
       seq |-> Val(spec[i].nuc_san)] : i \in {j \in rows : ExportWritten(spec[j])} }

\* _export_raxtax_db_file and _export_raxtax_query_file: the rows read
RaxtaxDbRows(spec) == {i \in Ids(spec) : HasBit(spec[i].checks, SELECTED)}
RaxtaxQueryRows(spec) == {i \in RaxtaxDbRows(spec) : spec[i].review}

\* a marking that stores the BAD_CLASSIFICATION bit over the old checks
_update_raxtax_Assign(spec, bad_entries) ==
    [i \in Ids(spec) |->
        IF i \in bad_entries
        THEN [spec[i] EXCEPT !.checks = Shl(BAD_CLASSIFICATION)]
        ELSE spec[i]]

\* _update_raxtax (eyebold_database.py 466-478)
_update_raxtax(spec, bad_entries) ==
    [i \in Ids(spec) |->
        IF i \in bad_entries
        THEN [spec[i] EXCEPT
                 !.checks = BitOr(BitAndNot(@, Shl(SELECTED)), Shl(BAD_CLASSIFICATION))]
        ELSE spec[i]]

\* flags that clear review on the selected records only
CurateFinalise_ReviewBySelected(spec) ==
    [i \in Ids(spec) |->
        [spec[i] EXCEPT
            !.review = IF BitAnd(spec[i].checks, Shl(SELECTED)) = 1
                       THEN FALSE ELSE @,
            !.include = IF BitAnd(spec[i].checks, Shl(SELECTED)) = 1
                        THEN TRUE ELSE @]]

\* steps 6 of curate (eyebold_database.py 452-461): review and include
CurateFinalise(spec) ==
    [i \in Ids(spec) |->
        [spec[i] EXCEPT
            !.review = IF BitAnd(spec[i].checks, Shl(NAME_CHECKED)) = 2
                       THEN FALSE ELSE @,
            !.include = IF BitAnd(spec[i].checks, Shl(SELECTED)) = 1
                        THEN TRUE ELSE @]]

-----------------------------------------------------------------------------
(* tools/tracker.py: the geo evaluator.  A climate_data row holds the set  *)
(* of country codes and the set of climate zones with an occurrence.       *)

\* common/constants.py TRACKER_INSERT_CHUNK_SIZE (scaled)
TRACKER_INSERT_CHUNK_SIZE == 2

\* str.upper() and str.lower() on the letters of the codes in use
UpperChar(c) ==
    CASE c = "d" -> "D" [] c = "e" -> "E" [] c = "c" -> "C"
      [] c = "f" -> "F" [] c = "b" -> "B" [] OTHER -> c
LowerChar(c) ==
    CASE c = "D" -> "d" [] c = "E" -> "e" [] c = "C" -> "c"
      [] c = "F" -> "f" [] c = "B" -> "b" [] OTHER -> c
Upper(text) == [k \in 1 .. Len(text) |-> UpperChar(text[k])]
LowerText(text) == [k \in 1 .. Len(text) |-> LowerChar(text[k])]

\* _get_keys: the taxon keys with a species-level record not yet checked
_get_keys(spec) ==
    {spec[i].gbif_key :
        i \in {j \in Ids(spec) :
                  /\ BitAnd(spec[j].checks, Shl(INCL_SPECIES)) = Shl(INCL_SPECIES)
                  /\ BitAnd(spec[j].checks, Shl(LOC_CHECKED)) = 0}}

\* _get_new_keys: the keys without a climate row, and every key with one
_get_new_keys(clim, keys) == [new |-> keys \ DOMAIN clim, old |-> DOMAIN clim]

\* the flag of one occurrence against the climate row of its key
LocationFlag(row, data) ==
    IF \/ row.country_iso # <<>> /\ Upper(row.country_iso) \in data.country_codes
       \/ row.kg_zone # <<>> /\ LowerText(row.kg_zone) \in data.zones
    THEN 1 ELSE 0

\* _evaluate_location for one key: LOC_EMPTY on its records when the key
\* has no climate row; else the flag of each record of the first chunk
\* fetched (the executemany on the same cursor ends the pending SELECT)
EvaluateKey(spec, clim, key) ==
    LET occurrences == Slice(Ascending({i \in Ids(spec) : spec[i].gbif_key = key}),
                             0, TRACKER_INSERT_CHUNK_SIZE)
    IN [i \in Ids(spec) |->
          IF key \notin DOMAIN clim
          THEN IF spec[i].gbif_key = key
               THEN [spec[i] EXCEPT !.checks = BitOr(@, Shl(LOC_EMPTY))]
               ELSE spec[i]
          ELSE IF i \in Range(occurrences)
               THEN [spec[i] EXCEPT
                        !.checks = BitOr(@, LocationFlag(spec[i], clim[key])
                                            * Shl(LOC_PASSED))]
               ELSE spec[i]]

RECURSIVE _evaluate_location(_, _, _)
_evaluate_location(spec, clim, keys) ==
    IF keys = <<>> THEN spec
    ELSE _evaluate_location(EvaluateKey(spec, clim, Head(keys)), clim, Tail(keys))

\* a marking that evaluates and leaves LOC_CHECKED as it is
_mark_keys_as_checked_EvaluateOnly(spec, clim, keys) ==
    _evaluate_location(spec, clim, Ascending(keys))

\* _mark_keys_as_checked: evaluate, then LOC_CHECKED on the keys' records
_mark_keys_as_checked(spec, clim, keys) ==
    LET evaluated == _evaluate_location(spec, clim, Ascending(keys))
    IN [i \in Ids(spec) |->
          IF evaluated[i].gbif_key \in keys
          THEN [evaluated[i] EXCEPT !.checks = BitOr(@, Shl(LOC_CHECKED))]
          ELSE evaluated[i]]

-----------------------------------------------------------------------------
(* The pipeline specification: the commands of cli.py on one store.  A     *)
(* command runs step by step (pc); the next command starts when it ended.  *)

MaxCommands == 1
MaxFileLen == 2

Line(specimenid, marker_code, nuc, taxon_genus, taxon_species, country_iso) ==
    [specimenid |-> specimenid, marker_code |-> marker_code, nuc |-> nuc,
     taxon_genus |-> taxon_genus, taxon_species |-> taxon_species,
     country_iso |-> country_iso]

\* the lines a file is made of: two versions of record 1, record 2 with a
\* sequence containing record 1's, a line without sequence
FileLines ==
    { Line(<<"1">>, <<"M">>, <<"C", "A">>, <<"g">>, <<"a">>, <<"d", "e">>),
      Line(<<"1">>, <<"M">>, <<"C", "A">>, <<"g">>, <<"b">>, <<"d", "e">>),
      Line(<<"2">>, <<"M">>, <<"A", "C", "A">>, <<"g">>, <<"a">>, <<>>),
      Line(<<" ", "2">>, <<"M">>, <<" ">>, <<"g">>, <<"a">>, <<>>) }

Files == UNION {[1 .. n -> FileLines] : n \in 1 .. MaxFileLen}

\* the lineage entries of a GBIF match down to the genus
GenusLineage ==
    [kingdom |-> <<"K">>, phylum |-> <<"P">>, class |-> <<"C">>,
     order |-> <<"O">>, family |-> <<"F">>, genus |-> <<"g">>]

SpeciesLineage(name) ==
    [kingdom |-> <<"K">>, phylum |-> <<"P">>, class |-> <<"C">>,
     order |-> <<"O">>, family |-> <<"F">>, genus |-> <<"g">>, species |-> name]

Response(error, matchType, confidence, status, rank, usageKey, names) ==
    [error |-> error, matchType |-> matchType, confidence |-> confidence,
     status |-> status, rank |-> rank, usageKey |-> usageKey, names |-> names]

\* the answers of the name service: a failed request, two accepted
\* species (one a hybrid name), a match at the genus, no match with and
\* without full confidence
Responses ==
    { Response(TRUE, "", 0, "", "", 0, <<>>),
      Response(FALSE, "EXACT", 99, "ACCEPTED", "SPECIES", 1, SpeciesLineage(<<"a">>)),
      Response(FALSE, "FUZZY", 95, "ACCEPTED", "SPECIES", 2,
               SpeciesLineage(<<"a", " ", "x", " ", "b">>)),
      Response(FALSE, "HIGHERRANK", 97, "ACCEPTED", "GENUS", 1, GenusLineage),
      Response(FALSE, "NONE", 100, "", "", 0, <<>>),
      Response(FALSE, "NONE", 99, "", "", 0, <<>>) }

\* the climate store the cli is pointed at: a new one or one with a row
InitialClimates ==
    { [k \in {} |-> [country_codes |-> {}, zones |-> {}]],
      [k \in {1} |-> [country_codes |-> {<<"D", "E">>}, zones |-> {}]] }

\* the state of a command: which one, and how it stands
Res(cmd, status, error) ==
    [cmd |-> cmd, status |-> status, error |-> error,
     new_ids |-> <<>>, updated_ids |-> <<>>]

Init ==
    /\ specimen = EmptyTable
    /\ climate \in InitialClimates
    /\ pc = "nodb"
    /\ infile = <<>>
    /\ pos = 0
    /\ table_batch = <<>>
    /\ result = Res("none", "returned", "")
    /\ bv = 0
    /\ runs = 0

\* cli build: create() fills the new store, curate() follows
Build ==
    /\ pc = "nodb"
    /\ \E file \in Files : specimen' = create_database(file)
    /\ pc' = "harmonise"
    /\ result' = Res("build", "running", "")
    /\ UNCHANGED <<climate, infile, pos, table_batch, bv, runs>>

\* cli review: review() is curate()
Review ==
    /\ pc = "idle"
    /\ runs < MaxCommands
    /\ pc' = "harmonise"
    /\ result' = Res("review", "running", "")
    /\ runs' = runs + 1
    /\ UNCHANGED <<specimen, climate, infile, pos, table_batch, bv>>

\* curate step 1: harmonise; an exception of a handler ends the command
Harmonise ==
    /\ pc = "harmonise"
    /\ \E choice \in [ReviewLineages(specimen) -> Responses] :
          LET out == CurateHarmonise(specimen, choice)
          IN /\ specimen' = out.spec
             /\ IF out.raised # {}
                THEN /\ pc' = "idle"
                     /\ \E e \in out.raised :
                           result' = [result EXCEPT !.status = "raised", !.error = e]
                ELSE /\ pc' = "purge"
                     /\ result' = result
    /\ UNCHANGED <<climate, infile, pos, table_batch, bv, runs>>

\* curate step 2: return when no record has a taxon key, else purge
Purge ==
    /\ pc = "purge"
    /\ IF DistinctKeys(specimen) = {}
       THEN /\ pc' = "idle"
            /\ result' = [result EXCEPT !.status = "returned"]
            /\ specimen' = specimen
       ELSE /\ pc' = "hybrids"
            /\ result' = result
            /\ specimen' = CuratePurge(specimen)
    /\ UNCHANGED <<climate, infile, pos, table_batch, bv, runs>>

\* curate step 3: hybrid marking
Hybrids ==
    /\ pc = "hybrids"
    /\ specimen' = disclose_hybrids(specimen)
    /\ pc' = "select"
    /\ UNCHANGED <<climate, infile, pos, table_batch, result, bv, runs>>

\* curate step 4: selection
Select ==
    /\ pc = "select"
    /\ specimen' = CurateSelect(specimen)
    /\ pc' = "raxtax"
    /\ UNCHANGED <<climate, infile, pos, table_batch, result, bv, runs>>

\* a classifier step in which a failed run has marked records all the same
Raxtax_MarksThenRaises ==
    /\ pc = "raxtax"
    /\ LET errors == {ExportError(specimen[i]) : i \in RaxtaxDbRows(specimen)} \ {""}
           queries == {i \in RaxtaxQueryRows(specimen) : ExportWritten(specimen[i])}
       IN IF errors # {}
          THEN /\ \E e \in errors :
                     result' = [result EXCEPT !.status = "raised", !.error = e]
               /\ pc' = "idle"
               /\ specimen' = specimen
          ELSE \E run \in {"", "FileNotFoundError", "CalledProcessError"},
                  bad_entries \in SUBSET queries :
                  /\ specimen' = _update_raxtax(specimen, bad_entries)
                  /\ IF run = ""
                     THEN /\ pc' = "finalise"
                          /\ result' = result
                     ELSE /\ pc' = "idle"
                          /\ result' = [result EXCEPT !.status = "raised", !.error = run]
    /\ UNCHANGED <<climate, infile, pos, table_batch, bv, runs>>

\* curate step 5: an export error or a failed classifier run ends the
\* command (FileNotFoundError: no binary or no output file;
\* CalledProcessError: exit status not 0); the classifier's verdicts
\* (bad_entries) are its own, over the query records
Raxtax ==
    /\ pc = "raxtax"
    /\ LET errors == {ExportError(specimen[i]) : i \in RaxtaxDbRows(specimen)} \ {""}
           queries == {i \in RaxtaxQueryRows(specimen) : ExportWritten(specimen[i])}
       IN IF errors # {}
          THEN /\ \E e \in errors :
                     result' = [result EXCEPT !.status = "raised", !.error = e]
               /\ pc' = "idle"
               /\ specimen' = specimen
          ELSE \E run \in {"", "FileNotFoundError", "CalledProcessError"},
                  bad_entries \in SUBSET queries :
                  IF run = ""
                  THEN /\ specimen' = _update_raxtax(specimen, bad_entries)
                       /\ pc' = "finalise"
                       /\ result' = result
                  ELSE /\ bad_entries = {}
                       /\ specimen' = specimen
                       /\ pc' = "idle"
                       /\ result' = [result EXCEPT !.status = "raised", !.error = run]
    /\ UNCHANGED <<climate, infile, pos, table_batch, bv, runs>>

\* curate step 6: review and include flags; the command ends
Finalise ==
    /\ pc = "finalise"
    /\ specimen' = CurateFinalise(specimen)
    /\ pc' = "idle"
    /\ result' = [result EXCEPT !.status = "returned"]
    /\ UNCHANGED <<climate, infile, pos, table_batch, bv, runs>>

\* cli update: update() starts with insert_updates reading the file
UpdateStart ==
    /\ pc = "idle"
    /\ runs < MaxCommands
    /\ \E file \in Files : infile' = file
    /\ pos' = 1
    /\ table_batch' = <<>>
    /\ pc' = "rows"
    /\ result' = Res("update", "running", "")
    /\ runs' = runs + 1
    /\ UNCHANGED <<specimen, climate, bv>>

\* insert_updates: one line of the file
UpdateRow ==
    /\ pc = "rows"
    /\ pos <= Len(infile)
    /\ LET st == insert_updates_row(
                     [spec |-> specimen, table_batch |-> table_batch,
                      new_ids |-> result.new_ids, updated_ids |-> result.updated_ids],
                     infile[pos])
       IN /\ specimen' = st.spec
          /\ table_batch' = st.table_batch
          /\ result' = [result EXCEPT !.new_ids = st.new_ids,
                                      !.updated_ids = st.updated_ids]
    /\ pos' = pos + 1
    /\ UNCHANGED <<climate, pc, infile, bv, runs>>

\* insert_updates: the last batch; update() returns when no id was reported
UpdateFinish ==
    /\ pc = "rows"
    /\ pos > Len(infile)
    /\ specimen' = insert_updates_last(specimen, table_batch)
    /\ table_batch' = <<>>
    /\ pos' = 0
    /\ infile' = <<>>
    /\ IF Len(result.updated_ids) + Len(result.new_ids) = 0
       THEN /\ pc' = "idle"
            /\ result' = [result EXCEPT !.status = "returned"]
       ELSE /\ pc' = "update_harmonise"
            /\ result' = result
    /\ UNCHANGED <<climate, bv, runs>>

\* update step 1: the harmoniser; its batch write raises, so the command
\* goes on only when no record is waiting for a name
UpdateHarmoniseStep ==
    /\ pc = "update_harmonise"
    /\ \E choice \in [ReviewLineages(specimen) -> Responses] :
          LET raised == UpdateHarmonise(specimen, choice)
          IN IF raised # {}
             THEN /\ pc' = "idle"
                  /\ \E e \in raised :
                        result' = [result EXCEPT !.status = "raised", !.error = e,
                                                 !.new_ids = <<>>, !.updated_ids = <<>>]
             ELSE /\ pc' = "update_clear"
                  /\ result' = result
    /\ UNCHANGED <<specimen, climate, infile, pos, table_batch, bv, runs>>

\* update, eyebold_database.py 174-198: the keys of the reported ids; return
\* when there is none, else the clear statement, whose executemany is
\* handed bare integers and raises before any row is touched
UpdateClear ==
    /\ pc = "update_clear"
    /\ LET all_ids == {result.updated_ids[k][1] : k \in 1 .. Len(result.updated_ids)}
                      \cup Range(result.new_ids)
           gbif_keys == {specimen[i].gbif_key : i \in all_ids \cap Ids(specimen)} \ {0}
       IN result' = IF gbif_keys = {}
                    THEN Res("update", "returned", "")
                    ELSE Res("update", "raised", "ProgrammingError")
    /\ pc' = "idle"
    /\ UNCHANGED <<specimen, climate, infile, pos, table_batch, bv, runs>>

\* cli location build: validate_location.  The keys with a climate row are
\* evaluated and marked; a download for the other keys never gets past
\* the unpacking of what get_locations yields.  limit bounds the commands
GeoCommand(limit) ==
    /\ pc = "idle"
    /\ runs < limit
    /\ LET keys == _get_new_keys(climate, _get_keys(specimen))
       IN /\ specimen' = _mark_keys_as_checked(specimen, climate, keys.old)
          /\ result' = IF keys.new = {} THEN Res("geo", "returned", "")
                       ELSE Res("geo", "raised", "ValueError")
    /\ runs' = runs + 1
    /\ UNCHANGED <<climate, pc, infile, pos, table_batch, bv>>

Geo == GeoCommand(MaxCommands)

Next ==
    \/ Build
    \/ Review
    \/ Harmonise
    \/ Purge
    \/ Hybrids
    \/ Select
    \/ Raxtax
    \/ Finalise
    \/ UpdateStart
    \/ UpdateRow
    \/ UpdateFinish
    \/ UpdateHarmoniseStep
    \/ UpdateClear
    \/ Geo

Spec == Init /\ [][Next]_vars

-----------------------------------------------------------------------------
(* Properties of the pipeline.                                             *)

\* the golden predicate, bit by bit
GoldenPredicate(checks) ==
    /\ HasBit(checks, NAME_CHECKED)
    /\ ~ HasBit(checks, NAME_FAILED)
    /\ ~ HasBit(checks, DUPLICATE)
    /\ ~ HasBit(checks, FAILED_LENGTH)
    /\ ~ HasBit(checks, BAD_CLASSIFICATION)

\* C1: in every state the commands can reach, a record with SELECTED set
\* has NAME_CHECKED set and none of NAME_FAILED, DUPLICATE, FAILED_LENGTH,
\* BAD_CLASSIFICATION set.
C1_SelectedImpliesGolden ==
    \A i \in Ids(specimen) :
        HasBit(specimen[i].checks, SELECTED) => GoldenPredicate(specimen[i].checks)

\* the positions of a curate pass
CuratePcs == {"harmonise", "purge", "hybrids", "select", "raxtax", "finalise"}

\* C2 as stated: no step of a curate pass clears a bit of a record's checks.
C2_NoBitCleared ==
    [][(pc \in CuratePcs) =>
          \A i \in Ids(specimen) : \A b \in AllBits :
              HasBit(specimen[i].checks, b) => HasBit(specimen'[i].checks, b)]_vars

\* C2: a step of a curate pass clears no bit of a record's checks except
\* SELECTED, and SELECTED only in the classifier step on a record that
\* this step marks BAD_CLASSIFICATION.
C2_OnlySelectedCleared ==
    [][(pc \in CuratePcs) =>
          \A i \in Ids(specimen) : \A b \in AllBits :
              (HasBit(specimen[i].checks, b) /\ ~ HasBit(specimen'[i].checks, b))
              => (b = SELECTED /\ pc = "raxtax"
                  /\ ~ HasBit(specimen[i].checks, BAD_CLASSIFICATION)
                  /\ HasBit(specimen'[i].checks, BAD_CLASSIFICATION))]_vars

\* the classifier step has marked a record of its query file, which then
\* has lost SELECTED and kept its other bits
C2_Witness ==
    /\ pc = "finalise"
    /\ \E i \in Ids(specimen) :
          /\ specimen[i].review
          /\ HasBit(specimen[i].checks, BAD_CLASSIFICATION)
          /\ ~ HasBit(specimen[i].checks, SELECTED)
          /\ HasBit(specimen[i].checks, NAME_CHECKED)
          /\ HasBit(specimen[i].checks, INCL_SPECIES)

\* the taxon keys update() was handed with the changed ids
AffectedKeys ==
    {result.updated_ids[k][2] : k \in 1 .. Len(result.updated_ids)} \ {0}

\* C8: when the harmoniser of an update is about to run, every record of an
\* affected taxon holds only LOC_CHECKED, LOC_PASSED, LOC_EMPTY in its
\* checks and has include false.
C8_ClearedBeforeHarmoniser ==
    pc = "update_harmonise" =>
        \A i \in Ids(specimen) :
            specimen[i].gbif_key \in AffectedKeys =>
                /\ BitAnd(specimen[i].checks, get_update_clear_mask) = specimen[i].checks
                /\ ~ specimen[i].include

\* C9: insert_updates puts every accepted row in exactly one of three
\* cases by its specimen id: no stored record, reported in new_ids; a
\* stored record with another hash, reported in the changed ids with the
\* stored taxon key; a stored record with the same hash, reported in
\* neither list and not written.  A row that is not accepted is not
\* reported and not written.
C9_RowClassified ==
    [][(pc = "rows" /\ pos <= Len(infile) /\ pos' = pos + 1) =>
          LET parsed == TsvUpdateParser_next(infile[pos])
              written == table_batch' =
                            Append(table_batch, [id |-> parsed.id, row |-> parsed.row])
              skipped == /\ result' = result
                         /\ table_batch' = table_batch
                         /\ specimen' = specimen
          IN IF ~ parsed.yielded THEN skipped
             ELSE IF parsed.id \notin Ids(specimen)
             THEN /\ result'.new_ids = Append(result.new_ids, parsed.id)
                  /\ result'.updated_ids = result.updated_ids
                  /\ written
             ELSE IF specimen[parsed.id].hash # parsed.hash
             THEN /\ result'.updated_ids =
                        Append(result.updated_ids,
                               <<parsed.id, specimen[parsed.id].gbif_key>>)
                  /\ result'.new_ids = result.new_ids
                  /\ written
             ELSE skipped]_vars

\* a file read to its end with a changed row of a harmonised record and a
\* new row
C9_Witness ==
    /\ pc = "rows"
    /\ pos > Len(infile)
    /\ result.new_ids # <<>>
    /\ \E k \in 1 .. Len(result.updated_ids) : result.updated_ids[k][2] # 0

\* the content hash stored for every specimen id
StoredHashes(spec) == [i \in Ids(spec) |-> spec[i].hash]

\* C10: an update reading the file the store was built from reports no new
\* and no changed id.
C10_RoundTrip ==
    [][(/\ pc = "rows"
        /\ StoredHashes(specimen) = StoredHashes(create_database(infile))
        /\ result.new_ids = <<>>
        /\ result.updated_ids = <<>>)
       => (result'.new_ids = <<>> /\ result'.updated_ids = <<>>)]_vars

\* the records the helper queries of a pass hand to the harmoniser
SubmittedIds(spec) ==
    UNION {g.specimenids :
              g \in UNION {get_unsanatized_taxonomy_b2t(spec, l) : l \in Range(Levels)}}

\* C13: a review pass submits to the harmoniser exactly the records whose
\* NAME_CHECKED bit is clear.
C13_ReviewSubmitsUnchecked ==
    (pc = "harmonise" /\ result.cmd = "review")
    => SubmittedIds(specimen) =
          {i \in Ids(specimen) : ~ HasBit(specimen[i].checks, NAME_CHECKED)}

\* C14: a batch of rows whose insert fails is rolled back and the failure
\* is raised to the caller: the command does not go on as if the batch had
\* been written.
C14_FailedBatchRaises ==
    [][(pc = "rows" /\ pos > Len(infile) /\ table_batch # <<>>
           /\ IntegrityError(specimen, table_batch))
       => (specimen' = specimen /\ result'.status = "raised")]_vars

\* C18: when the classifier cannot be run, exits with a status other than
\* 0 or leaves no output file, the classifier step raises and the checks of
\* every record, BAD_CLASSIFICATION included, stay as they were.
C18_FailedClassifierMarksNothing ==
    [][(pc = "raxtax" /\ result'.error \in {"FileNotFoundError", "CalledProcessError"})
       => (/\ result'.status = "raised"
           /\ pc' = "idle"
           /\ specimen' = specimen)]_vars

\* a curate ended by a classifier failure with a record the classifier had
\* been asked about
C18_Witness ==
    /\ pc = "idle"
    /\ result.cmd = "build"
    /\ result.status = "raised"
    /\ result.error = "CalledProcessError"
    /\ \E i \in RaxtaxQueryRows(specimen) :
          /\ ExportWritten(specimen[i])
          /\ ~ HasBit(specimen[i].checks, BAD_CLASSIFICATION)

\* C19: the classifier export of a curate writes every SELECTED record
\* whose sanitised sequence is over A, C, G, T, with a tax list as long as
\* the longest prefix of phylum .. species whose INCL bits are all set (a
\* record included down to the class is written with two names).
C19_ExportWritesPrefix ==
    (pc = "raxtax" /\ \A i \in RaxtaxDbRows(specimen) : ExportError(specimen[i]) = "")
    => \A i \in RaxtaxDbRows(specimen) :
          (~ IsNull(specimen[i].nuc_san)
           /\ Range(Val(specimen[i].nuc_san)) \subseteq {"A", "C", "G", "T"})
          => \E record \in _export_fasta_raxtax(specimen, RaxtaxDbRows(specimen)) :
                /\ record.specimenid = i
                /\ Len(record.tax) = ExportDepth(specimen[i].checks, 1)

\* the steps of curate in the order of the code
CurateOrder == <<"harmonise", "purge", "hybrids", "select", "raxtax", "finalise">>

C30_NewIdsStored ==
    pc = "update_harmonise"
    => \A id \in Range(result.new_ids) : id \in Ids(specimen)

-----------------------------------------------------------------------------
(* Bitvector specification: the selection statement of step 4 on every     *)
(* value a checks column can hold.                                         *)

InitGolden ==
    /\ specimen = EmptyTable
    /\ climate = <<>>
    /\ pc = "select"
    /\ infile = <<>>
    /\ pos = 0
    /\ table_batch = <<>>
    /\ result = "none"
    /\ bv \in 0 .. (2 ^ BitWidth - 1)
    /\ runs = 0

\* the UPDATE of step 4 on a record holding bv
GoldenSelect ==
    /\ pc = "select"
    /\ bv' = SelectGolden(bv)
    /\ pc' = "raxtax"
    /\ UNCHANGED <<specimen, climate, infile, pos, table_batch, result, runs>>

SpecGolden == InitGolden /\ [][GoldenSelect]_vars

\* C7: step 4 sets SELECTED on exactly the records that satisfy the golden
\* predicate: for every value of checks the masked equality selects iff
\* NAME_CHECKED is set and NAME_FAILED, DUPLICATE, FAILED_LENGTH and
\* BAD_CLASSIFICATION are clear, whatever the other bits are, and the
\* statement changes no other bit.
C7_SelectIffGolden ==
    [][pc = "select" =>
          bv' = IF GoldenPredicate(bv) /\ ~ HasBit(bv, SELECTED) THEN bv + 1 ELSE bv]_vars

\* a value with HYBRID, INCL_* and LOC_* bits set has been selected
C7_Witness ==
    /\ pc = "raxtax"
    /\ HasBit(bv, SELECTED)
    /\ \A b \in {HYBRID, INCL_SPECIES, INCL_GENUS, LOC_CHECKED, LOC_PASSED, LOC_EMPTY} :
          HasBit(bv, b)

-----------------------------------------------------------------------------
(* Handler specification: one query of the harmoniser against the name     *)
(* service.  infile holds what the service gives to the successive         *)
(* requests for the query; the handler sends one request.                  *)

MaxFailures == 1

\* the responses the service can give to a request
Answers ==
    { Response(FALSE, m, c, st, rk, 1, n) :
        m \in {"NONE", "FUZZY", "EXACT", "HIGHERRANK"}, c \in {99, 100},
        st \in {"ACCEPTED", "HIGHERRANK"},
        rk \in {"", "KINGDOM", "GENUS", "SPECIES", "FORM"},
        n \in {<<>>, GenusLineage, SpeciesLineage(<<"a">>)} }

\* a request that fails in transport
TransportError == Response(TRUE, "", 0, "", "", 0, <<>>)

\* up to MaxFailures failed requests, then an answer or one more failure
AttemptLists ==
    { [j \in 1 .. (k + 1) |-> IF j <= k THEN TransportError ELSE r] :
        k \in 0 .. MaxFailures, r \in Answers \cup {TransportError} }

InitHandler ==
    /\ specimen = EmptyTable
    /\ climate = <<>>
    /\ pc = "query"
    /\ infile \in AttemptLists
    /\ pos = 1
    /\ table_batch = <<>>
    /\ \E rank \in Range(Levels) : result = [rank |-> rank, data |-> None]
    /\ bv = 0
    /\ runs = 0

\* query_name_backbone_b2t: one call of name_backbone, then the handler
HandlerCall ==
    /\ pc = "query"
    /\ result' = [result EXCEPT
                     !.data = Some(query_name_backbone_b2t(result.rank, infile[pos]))]
    /\ pos' = pos + 1
    /\ pc' = "answered"
    /\ UNCHANGED <<specimen, climate, infile, table_batch, bv, runs>>

SpecHandler == InitHandler /\ [][HandlerCall]_vars

\* C11: a query answered with match type NONE at confidence 100 yields an
\* update that sets NAME_CHECKED and NAME_FAILED and changes no lineage
\* column and no taxon key; the handler returns, so that the other queries
\* of the pass are processed.
C11_NoMatchIsTerminalForItem ==
    (pc = "answered" /\ ~ infile[1].error
        /\ infile[1].matchType = "NONE" /\ infile[1].confidence = 100)
    => /\ Val(result.data).raised = ""
       /\ Val(result.data).checks = Some(generate_mask(<<NAME_CHECKED, NAME_FAILED>>))
       /\ Val(result.data).tax = <<>>
       /\ Val(result.data).gbif_key = None

\* C27: the handler returns a result, and raises nothing, for every answer
\* of the service: every match type, status, rank among the ten ranks or
\* absent, and set of rank fields.
C27_HandlerNeverRaises ==
    (pc = "answered" /\ infile[1].rank # "FORM") => Val(result.data).raised = ""

\* C22: when the answer's rank is a named rank outside the ten ranks
\* (form) and the bits deeper than the answer's rank are to be removed (the
\* answer declares HIGHERRANK, or it carries no name for the rank of the
\* query), the handler returns a result whose mask has no INCL bit deeper
\* than kingdom.
C22_UnknownRankAsKingdom ==
    LET r == infile[1]
    IN (/\ pc = "answered"
        /\ ~ r.error
        /\ r.matchType \in {"EXACT", "FUZZY", "HIGHERRANK"}
        /\ r.rank = "FORM"
        /\ \/ r.matchType = "HIGHERRANK"
           \/ r.status = "HIGHERRANK"
           \/ result.rank \notin DOMAIN r.names)
       => /\ Val(result.data).raised = ""
          /\ Val(result.data).checks # None
          /\ \A n \in Ranks \ {"kingdom"} :
                ~ HasBit(Val(Val(result.data).checks), from_string(n))

\* C21: when the answer declares HIGHERRANK, in matchType or in status, and
\* its rank is shallower than the rank of the query, the mask returned has
\* NAME_CHECKED, no INCL bit of a rank deeper than the answer's rank (the
\* rank of the query among them), and the INCL bit of every rank down to
\* the answer's rank that the answer carries.
C21_HigherRankMask ==
    LET r == infile[1]
    IN (/\ pc = "answered"
        /\ ~ r.error
        /\ r.matchType \in {"EXACT", "FUZZY", "HIGHERRANK"}
        /\ (r.matchType = "HIGHERRANK" \/ r.status = "HIGHERRANK")
        /\ Lower(r.rank) \in Ranks
        /\ TAXONOMY_TO_INT[Lower(r.rank)] < TAXONOMY_TO_INT[result.rank])
       => /\ Val(result.data).raised = ""
          /\ Val(result.data).checks # None
          /\ LET checks == Val(Val(result.data).checks)
             IN /\ HasBit(checks, NAME_CHECKED)
                /\ \A n \in Ranks :
                      IF TAXONOMY_TO_INT[n] > TAXONOMY_TO_INT[Lower(r.rank)]
                      THEN ~ HasBit(checks, from_string(n))
                      ELSE n \in DOMAIN r.names => HasBit(checks, from_string(n))

\* C12: a query whose first request fails in transport and whose next
\* request is answered is resolved in the same pass: the handler yields
\* what it yields for that answer.
C12_RetryAfterTransportError ==
    (pc = "answered" /\ Len(infile) = 2 /\ infile[1].error /\ ~ infile[2].error)
    => Val(result.data) = query_name_backbone_b2t(result.rank, infile[2])

-----------------------------------------------------------------------------
(* Geo specification: cli location build on bounded tables of harmonised   *)
(* species-level records, against a climate store with a row for key 1.    *)

MaxGeoRecs == 3
GeoRow(key, country, zone) ==
    [NewRow(<<>>, <<>>, NoLineage, country, zone) EXCEPT
        !.gbif_key = key,
        !.checks = generate_mask(<<NAME_CHECKED, INCL_SPECIES>>)]

\* the climate rows of key 1: with and without the country, with and
\* without occurrences counted in the zone
GeoClimates ==
    { [k \in {1} |-> [country_codes |-> cc, zones |-> z]] :
        cc \in {{}, {<<"D", "E">>}}, z \in {{}, {<<"c", "f", "b">>}} }

InitGeo ==
    /\ specimen \in [1 .. MaxGeoRecs ->
                        {GeoRow(k, c, z) : k \in {1, 2},
                                           c \in {<<>>, <<"d", "e">>},
                                           z \in {<<>>, <<"C", "f", "b">>}}]
    /\ climate \in GeoClimates
    /\ pc = "idle"
    /\ infile = <<>>
    /\ pos = 0
    /\ table_batch = <<>>
    /\ result = Res("none", "returned", "")
    /\ bv = 0
    /\ runs = 0

SpecGeo == InitGeo /\ [][Geo]_vars

\* C15: after the geo evaluation every record whose taxon key has a climate
\* row carries LOC_CHECKED, and carries LOC_PASSED iff its score is above
\* 0: its country is present and among the key's country codes, or its
\* zone is present and the key's counter of that zone is above 0.
C15_PassedIffScorePositive ==
    result.cmd = "geo"
    => \A i \in Ids(specimen) :
          specimen[i].gbif_key \in DOMAIN climate
          => LET row == specimen[i]
                 data == climate[row.gbif_key]
             IN /\ HasBit(row.checks, LOC_CHECKED)
                /\ HasBit(row.checks, LOC_PASSED)
                   <=> \/ /\ row.country_iso # <<>>
                          /\ Upper(row.country_iso) \in data.country_codes
                       \/ /\ row.kg_zone # <<>>
                          /\ LowerText(row.kg_zone) \in data.zones

\* Geo passes: location build run again and again on the tables of the geo
\* specification, while the climate store gains rows for keys without one
MaxPasses == 2

\* the climate store has a row for a key that had none
ClimateGain ==
    /\ pc = "idle"
    /\ \E key \in {1, 2} \ DOMAIN climate, cc \in {{}, {<<"D", "E">>}} :
          climate' = [k \in DOMAIN climate \cup {key} |->
                         IF k = key THEN [country_codes |-> cc, zones |-> {}]
                         ELSE climate[k]]
    /\ UNCHANGED <<specimen, pc, infile, pos, table_batch, result, bv, runs>>

SpecPasses == InitGeo /\ [][GeoCommand(MaxPasses) \/ ClimateGain]_vars

\* C28: whatever passes have run and whatever rows the climate store has
\* gained, no record carries both LOC_EMPTY and LOC_PASSED, and a record
\* with LOC_EMPTY or LOC_PASSED carries LOC_CHECKED.
C28_LocationBitsConsistent ==
    \A i \in Ids(specimen) :
        LET checks == specimen[i].checks
        IN /\ ~ (HasBit(checks, LOC_EMPTY) /\ HasBit(checks, LOC_PASSED))
           /\ (HasBit(checks, LOC_EMPTY) \/ HasBit(checks, LOC_PASSED))
              => HasBit(checks, LOC_CHECKED)

\* after two passes a record of key 2, which had no climate row at first,
\* has passed, next to a record of key 1 checked without passing
C28_Witness ==
    /\ runs = 2
    /\ \E i, j \in Ids(specimen) :
          /\ specimen[i].gbif_key = 2
          /\ HasBit(specimen[i].checks, LOC_PASSED)
          /\ HasBit(specimen[i].checks, LOC_CHECKED)
          /\ specimen[j].gbif_key = 1
          /\ HasBit(specimen[j].checks, LOC_CHECKED)
          /\ ~ HasBit(specimen[j].checks, LOC_PASSED)

-----------------------------------------------------------------------------
(* Download specification: the generators get_locations (the one           *)
(* validate_location consumes) and get_locations_sql on a list of keys.    *)
(* infile holds the keys, pos the offset of the batch, bv counts the       *)
(* sleeps of the poll loop up to MaxPolls, table_batch collects what was    *)
(* yielded.                                                                *)

MaxPolls == 2
GBIF_LOC_QUERY_LIMIT == 2

Min(a, b) == IF a <= b THEN a ELSE b

\* the status download_meta reports: a download is being prepared or
\* running until it has succeeded or was killed, and then stays so
DownloadStatuses == {"PREPARING", "RUNNING", "SUCCEEDED", "KILLED"}
download_meta(status) ==
    IF status \in {"SUCCEEDED", "KILLED"} THEN {status} ELSE DownloadStatuses

InitDownload ==
    /\ specimen = EmptyTable
    /\ climate = <<>>
    /\ pc = "submit"
    /\ \E keys \in (SUBSET {1, 2, 3}) \ {{}} : infile = Ascending(keys)
    /\ pos = 0
    /\ table_batch = <<>>
    /\ \E fn \in {"get_locations", "get_locations_sql"}, batch_size \in {1, 3} :
          result = [fn |-> fn, query_size |-> Min(batch_size, GBIF_LOC_QUERY_LIMIT),
                    status |-> "", error |-> ""]
    /\ bv = 0
    /\ runs = 0

\* the request of a batch and the first download_meta; the POST of
\* get_locations_sql is answered with 201 or with an error code
DownloadSubmit ==
    /\ pc = "submit"
    /\ pos < Len(infile)
    /\ \E status_code \in IF result.fn = "get_locations_sql" THEN {201, 400} ELSE {201},
          status \in DownloadStatuses :
          IF status_code = 201
          THEN /\ result' = [result EXCEPT !.status = status]
               /\ pc' = "polling"
          ELSE /\ result' = [result EXCEPT !.error = "ValueError"]
               /\ pc' = "raised"
    /\ bv' = 0
    /\ UNCHANGED <<specimen, climate, infile, pos, table_batch, runs>>

\* get_locations_sql only: the poll loop meets a killed download
DownloadKilled ==
    /\ pc = "polling"
    /\ result.fn = "get_locations_sql"
    /\ result.status = "KILLED"
    /\ result' = [result EXCEPT !.error = "ValueError"]
    /\ pc' = "raised"
    /\ UNCHANGED <<specimen, climate, infile, pos, table_batch, bv, runs>>

\* a turn of the poll loop begins: the status is not SUCCEEDED, sleep
DownloadSleep ==
    /\ pc = "polling"
    /\ result.status # "SUCCEEDED"
    /\ ~ (result.fn = "get_locations_sql" /\ result.status = "KILLED")
    /\ pc' = "sleeping"
    /\ bv' = Min(bv + 1, MaxPolls)
    /\ UNCHANGED <<specimen, climate, infile, pos, table_batch, result, runs>>

\* the turn ends: download_meta, back to the test of the loop
DownloadPoll ==
    /\ pc = "sleeping"
    /\ \E status \in download_meta(result.status) :
          result' = [result EXCEPT !.status = status]
    /\ pc' = "polling"
    /\ UNCHANGED <<specimen, climate, infile, pos, table_batch, bv, runs>>

\* the loop is left: download_get, the yield, the next turn of the for loop
DownloadFetch ==
    /\ pc = "polling"
    /\ result.status = "SUCCEEDED"
    /\ table_batch' = Append(table_batch,
                         IF result.fn = "get_locations_sql"
                         THEN [zip |-> pos, batch |-> Some(Slice(infile, pos, result.query_size))]
                         ELSE [zip |-> pos, batch |-> None])
    /\ pos' = pos + result.query_size
    /\ pc' = "submit"
    /\ UNCHANGED <<specimen, climate, infile, result, bv, runs>>

\* the for loop is exhausted
DownloadEnd ==
    /\ pc = "submit"
    /\ pos >= Len(infile)
    /\ pc' = "done"
    /\ UNCHANGED <<specimen, climate, infile, pos, table_batch, result, bv, runs>>

NextDownload ==
    \/ DownloadSubmit
    \/ DownloadKilled
    \/ DownloadSleep
    \/ DownloadPoll
    \/ DownloadFetch
    \/ DownloadEnd

\* the generator runs on: after each sleep the loop polls again
SpecDownloadLive ==
    /\ InitDownload /\ [][NextDownload]_vars
    /\ WF_vars(DownloadKilled)
    /\ WF_vars(DownloadSleep)
    /\ WF_vars(DownloadPoll)
    /\ WF_vars(DownloadFetch)

\* C16: the poll loop is left only on SUCCEEDED, to fetch the zip, or on
\* KILLED, by raising; and whenever a download polled by the evaluator is
\* KILLED the polling ends with the raise.
C16_KilledEndsPolling ==
    /\ [][(pc = "polling" /\ pc' \notin {"polling", "sleeping"})
          => \/ result.status = "SUCCEEDED" /\ Len(table_batch') = Len(table_batch) + 1
             \/ result.status = "KILLED" /\ pc' = "raised"]_vars
    /\ (pc = "polling" /\ result.fn = "get_locations" /\ result.status = "KILLED")
          ~> (pc = "raised")

-----------------------------------------------------------------------------
(* Classifier-output specification: _process_batch on one line of          *)
(* raxtax.out, then the marking of curate.  infile holds the parsed line   *)
(* (a score is written in hundredths), pos the id of the line before it,   *)
(* table_batch the marked records.                                         *)

\* the lineage the query file gives for a record, phylum to species
QueryLineage == <<<<"P">>, <<"C">>, <<"O">>, <<"F">>, <<"g">>, <<"a">>>>

\* a marking that compares every position, the species too
_mark_entry_WithSpecies(original_taxonomy, compared_taxonomy, scores) ==
    \E i \in 0 .. (Min(Len(original_taxonomy), Len(compared_taxonomy)) - 1) :
        /\ original_taxonomy[i + 1] # compared_taxonomy[i + 1]
        /\ scores[i + 1] >= 90

\* _mark_entry; positions count from 0 as enumerate does (the lines in
\* use have six positions, so the assertion i < 5 holds where it is met)
_mark_entry(original_taxonomy, compared_taxonomy, scores) ==
    \E i \in 0 .. (Min(Len(original_taxonomy), Len(compared_taxonomy)) - 1) :
        /\ original_taxonomy[i + 1] # compared_taxonomy[i + 1]
        /\ i < Len(scores) - 1
        /\ scores[i + 1] >= 90

\* _process_batch: a line with the id of the line before it is skipped
RECURSIVE _process_batch(_, _, _)
_process_batch(batch, last_id, marked_records) ==
    IF batch = <<>> THEN marked_records
    ELSE LET row == Head(batch)
         IN IF row.record_id = last_id
            THEN _process_batch(Tail(batch), last_id, marked_records)
            ELSE _process_batch(Tail(batch), row.record_id,
                    IF _mark_entry(row.original_taxonomy, row.compared_taxonomy, row.scores)
                    THEN Append(marked_records, row.record_id)
                    ELSE marked_records)

InitOutput ==
    /\ specimen = [i \in {1, 2} |->
                      [HarmonisedRow(<<"A", "C">>, 1) EXCEPT
                          !.checks = generate_mask(<<SELECTED, NAME_CHECKED>>)]]
    /\ climate = <<>>
    /\ pc = "output"
    /\ \E record_id \in {1, 2}, differing \in SUBSET (1 .. Len(QueryLineage)),
          scores \in [1 .. Len(QueryLineage) -> {89, 90}] :
          infile = << [record_id |-> record_id, original_taxonomy |-> QueryLineage,
                       compared_taxonomy |->
                           [k \in 1 .. Len(QueryLineage) |->
                               IF k \in differing THEN <<"x">> ELSE QueryLineage[k]],
                       scores |-> scores] >>
    /\ pos \in {0, 1}
    /\ table_batch = <<>>
    /\ result = "none"
    /\ bv = 0
    /\ runs = 0

\* the batch is processed and curate marks the records returned
OutputProcess ==
    /\ pc = "output"
    /\ table_batch' = _process_batch(infile, pos, table_batch)
    /\ specimen' = _update_raxtax(specimen, Range(table_batch'))
    /\ pc' = "marked"
    /\ UNCHANGED <<climate, infile, pos, result, bv, runs>>

SpecOutput == InitOutput /\ [][OutputProcess]_vars

\* C17: the record of a counted line of classifier output carries
\* BAD_CLASSIFICATION iff at some rank position above the species the
\* original and the compared name differ and the score there is at least
\* 0.9; a difference at the species, or one scored below 0.9, does not mark.
C17_MarkedIffConfidentDifference ==
    (pc = "marked" /\ infile[1].record_id # pos)
    => LET row == infile[1]
       IN HasBit(specimen[row.record_id].checks, BAD_CLASSIFICATION)
          <=> \E k \in 1 .. (Len(QueryLineage) - 1) :
                 /\ row.original_taxonomy[k] # row.compared_taxonomy[k]
                 /\ row.scores[k] >= 90

\* a counted line that differs at the family with score 0.9, at the genus
\* with a lower score and at the species has marked its record
C17_Witness ==
    /\ pc = "marked"
    /\ infile[1].record_id # pos
    /\ LET row == infile[1]
       IN /\ row.compared_taxonomy[4] = <<"x">> /\ row.scores[4] = 90
          /\ row.compared_taxonomy[5] = <<"x">> /\ row.scores[5] = 89
          /\ row.compared_taxonomy[6] = <<"x">>
          /\ HasBit(specimen[row.record_id].checks, BAD_CLASSIFICATION)

-----------------------------------------------------------------------------
(* Harmoniser-order specification: the update statements of one pass,      *)
(* applied one at a time in any order and any number of times.  infile     *)
(* holds the statements in submission order, result the table before the   *)
(* pass and the statements applied so far, bv their number.                *)

MaxApplications == 4

\* the statements of a pass: per level, deepest first, one per lineage
\* tuple (in the order of the smallest id), with the handler's result
HarmoniseCommands(spec, choice) ==
    Flatten([k \in 1 .. Len(ReversedLevels) |->
        LET info_dict == get_unsanatized_taxonomy_b2t(spec, ReversedLevels[k])
            first == Ascending({CHOOSE i \in g.specimenids :
                                   \A j \in g.specimenids : i <= j : g \in info_dict})
        IN [n \in 1 .. Len(first) |->
              LET g == CHOOSE h \in info_dict : first[n] \in h.specimenids
              IN [specimenids |-> g.specimenids,
                  datum |-> query_name_backbone_b2t(ReversedLevels[k],
                                                    choice[g.lineage])]]])

\* execute_batches on the statement of one lineage tuple
ApplyCommand(spec, command) ==
    [i \in Ids(spec) |->
        IF i \in command.specimenids
        THEN to_sql_command(spec[i], command.datum) ELSE spec[i]]

RECURSIVE ApplyCommands(_, _)
ApplyCommands(spec, commands) ==
    IF commands = <<>> THEN spec
    ELSE ApplyCommands(ApplyCommand(spec, Head(commands)), Tail(commands))

InitOrder ==
    /\ specimen \in [1 .. 3 ->
          {NewRow(<<"A">>, <<>>, [NoLineage EXCEPT !.genus = <<"g">>, !.species = s],
                  <<>>, <<>>) : s \in {<<>>, <<"a">>, <<"b">>}}]
    /\ climate = <<>>
    /\ pc = "apply"
    /\ \E choice \in [ReviewLineages(specimen) -> Responses] :
          /\ infile = HarmoniseCommands(specimen, choice)
          /\ \A k \in 1 .. Len(infile) : infile[k].datum.raised = ""
    /\ pos = 0
    /\ table_batch = <<>>
    /\ result = [initial |-> specimen, applied |-> {}]
    /\ bv = 0
    /\ runs = 0

\* one statement lands
OrderApply ==
    /\ pc = "apply"
    /\ bv < MaxApplications
    /\ \E k \in 1 .. Len(infile) :
          /\ specimen' = ApplyCommand(specimen, infile[k])
          /\ result' = [result EXCEPT !.applied = @ \cup {k}]
    /\ bv' = bv + 1
    /\ UNCHANGED <<climate, pc, infile, pos, table_batch, runs>>

SpecOrder == InitOrder /\ [][OrderApply]_vars

\* C25: once every statement of the pass has landed, in whatever order and
\* however often, the table is the one that applying each statement once in
\* submission order gives.
C25_OrderIndependent ==
    (pc = "apply" /\ result.applied = 1 .. Len(infile))
    => specimen = ApplyCommands(result.initial, infile)

\* three statements of different results have landed in four applications,
\* one of them twice
C25_Witness ==
    /\ pc = "apply"
    /\ Len(infile) = 3
    /\ result.applied = {1, 2, 3}
    /\ bv = 4
    /\ Cardinality({infile[k].datum : k \in 1 .. 3}) = 3
    /\ specimen # result.initial

-----------------------------------------------------------------------------
(* Classifier-lines specification: _process_batch on an output of several  *)
(* lines, of two records, each line marking or not.                        *)

MaxLines == 3

InitLines ==
    /\ specimen = [i \in {1, 2} |->
                      [HarmonisedRow(<<"A", "C">>, 1) EXCEPT
                          !.checks = generate_mask(<<SELECTED, NAME_CHECKED>>)]]
    /\ climate = <<>>
    /\ pc = "output"
    /\ \E n \in 1 .. MaxLines :
          infile \in [1 .. n ->
              { [record_id |-> record_id, original_taxonomy |-> QueryLineage,
                 compared_taxonomy |-> [QueryLineage EXCEPT ![4] = family],
                 scores |-> [k \in 1 .. Len(QueryLineage) |-> 90]] :
                  record_id \in {1, 2}, family \in {<<"F">>, <<"x">>} }]
    /\ pos = 0
    /\ table_batch = <<>>
    /\ result = "none"
    /\ bv = 0
    /\ runs = 0

SpecLines == InitLines /\ [][OutputProcess]_vars

\* C26: in one classifier output only the first line of a record counts:
\* the record carries BAD_CLASSIFICATION iff its first line marks it,
\* wherever its other lines stand.
C26_FirstLineDecides ==
    pc = "marked"
    => \A id \in {infile[k].record_id : k \in 1 .. Len(infile)} :
          LET first == infile[CHOOSE k \in 1 .. Len(infile) :
                                 /\ infile[k].record_id = id
                                 /\ \A j \in 1 .. (k - 1) : infile[j].record_id # id]
          IN HasBit(specimen[id].checks, BAD_CLASSIFICATION)
             <=> _mark_entry(first.original_taxonomy, first.compared_taxonomy,
                             first.scores)

====
